---- MODULE Spec2Model ----
(***************************************************************************)
(* Model of mtg-counterplay's card utilities:                              *)
(*   - the mana evaluator of src/lib/scryfall.ts (pure functions over a    *)
(*     card's mana cost string), and                                       *)
(*   - the catalog client fetchInstantsFromSet of src/unnamed/part_001     *)
(*     (four sequential paginated queries against the remote catalog).     *)
(* Strings the code inspects character by character are sequences of      *)
(* one-character strings.                                                  *)
(***************************************************************************)
EXTENDS Integers, Sequences, FiniteSets, TLC

\* ---------------------------------------------------------------- bounds
\* Largest number of mana symbols in a generated mana cost.
MaxSyms == 2
\* Largest card.cmc of a generated card, in units of 1/CmcUnit.
MaxCmcScaled == 22
\* card.cmc is a rational; the model stores it as a multiple of 1/CmcUnit.
CmcUnit == 2
\* Largest target mana value the filter is asked for (smallest is -1).
MaxTarget == 11
\* Pages beyond the first that the remote serves over one call, all four
\* searches together.
MaxExtraPages == 1
\* Largest number of cards on one page.
MaxPageLen == 2
\* Cards the catalog holds for the two card searches of one call together.
MaxCards == 3

\* ------------------------------------------------- strings as sequences
Digits == {"0", "1", "2", "3", "4", "5", "6", "7", "8", "9"}

\* The character class [WUBRG] of the regular expressions in scryfall.ts.
ColorLetters == {"W", "U", "B", "R", "G"}

\* String.prototype.includes(c) for a single character c.
IncludesChar(s, c) == \E i \in 1..Len(s) : s[i] = c

\* String.prototype.includes(t) for a string t.
Includes(s, t) ==
  \E i \in 1..(Len(s) - Len(t) + 1) : SubSeq(s, i, i + Len(t) - 1) = t

\* String.prototype.endsWith(c) for a single character c.
EndsWithChar(s, c) == Len(s) > 0 /\ s[Len(s)] = c

\* symbol.slice(1, -1): drop the first and the last character.
SliceInner(s) == SubSeq(s, 2, Len(s) - 1)

\* symbolContent.slice(0, -2): drop the last two characters.
SliceDropLast2(s) == SubSeq(s, 1, Len(s) - 2)

\* /^\d+$/.test(s)
IsDigits(s) == Len(s) > 0 /\ \A i \in 1..Len(s) : s[i] \in Digits

\* /^[WUBRG]$/.test(s)
IsColorLetter(s) == Len(s) = 1 /\ s[1] \in ColorLetters

\* Position of the first character c of s at or after position i, 0 if none.
RECURSIVE IndexFrom(_, _, _)
IndexFrom(s, c, i) ==
  IF i > Len(s) THEN 0
  ELSE IF s[i] = c THEN i
  ELSE IndexFrom(s, c, i + 1)

\* String.prototype.split('/'): the pieces between the slashes.
RECURSIVE SplitSlash(_)
SplitSlash(s) ==
  LET k == IndexFrom(s, "/", 1)
  IN IF k = 0 THEN <<s>>
     ELSE <<SubSeq(s, 1, k - 1)>> \o SplitSlash(SubSeq(s, k + 1, Len(s)))

\* parts.filter(p => /^[WUBRG]$/.test(p))
RECURSIVE FilterColorLetters(_)
FilterColorLetters(parts) ==
  IF parts = <<>> THEN <<>>
  ELSE (IF IsColorLetter(Head(parts)) THEN <<Head(parts)>> ELSE <<>>)
       \o FilterColorLetters(Tail(parts))

\* ------------------------------------------------------- mana evaluator
\* manaCost.match(/\{[^}]+\}/g) || [] : scanning from position i, a match
\* starts at a "{" that is followed by at least one character other than
\* "}" and then by a "}"; the scan resumes after the match.
RECURSIVE MatchFrom(_, _)
MatchFrom(s, i) ==
  IF i > Len(s) THEN <<>>
  ELSE IF s[i] # "{" THEN MatchFrom(s, i + 1)
  ELSE LET j == IndexFrom(s, "}", i + 1)
       IN IF j = 0 \/ j = i + 1 THEN MatchFrom(s, i + 1)
          ELSE <<SubSeq(s, i, j)>> \o MatchFrom(s, j + 1)

parseManaSymbols(manaCost) == MatchFrom(manaCost, 1)

\* The cost both evaluators read: the card's own mana_cost, else the first
\* face's.  An undefined and an empty mana_cost are both falsy and both <<>>.
ResolvedCost(card) ==
  IF card.mana_cost = <<>> /\ Len(card.card_faces) > 0
  THEN card.card_faces[1].mana_cost
  ELSE card.mana_cost

RECURSIVE CountPhyrexianIn(_)
CountPhyrexianIn(symbols) ==
  IF symbols = <<>> THEN 0
  ELSE (IF Includes(SliceInner(Head(symbols)), <<"/", "P">>) THEN 1 ELSE 0)
       + CountPhyrexianIn(Tail(symbols))

countPhyrexianMana(card) ==
  LET manaCost == ResolvedCost(card)
  IN IF manaCost = <<>> THEN 0
     ELSE CountPhyrexianIn(parseManaSymbols(manaCost))

\* Math.floor(card.cmc) for a non-negative cmc stored as a multiple of 1/CmcUnit.
FloorCmc(card) == card.cmc \div CmcUnit

\* The target that selects the open-ended "10+" bucket.
TenPlus == 10

\* Variant of cardMatchesManaValue that ignores the Phyrexian symbols.
cardMatchesManaValue_Exact(c, targetManaValue) ==
  LET cmc == FloorCmc(c)
  IN IF targetManaValue = TenPlus THEN cmc >= TenPlus
     ELSE targetManaValue = cmc

cardMatchesManaValue(c, targetManaValue) ==
  LET cmc == FloorCmc(c)
      phyrexianCount == countPhyrexianMana(c)
      minMana == cmc - phyrexianCount
      maxMana == cmc
  IN IF targetManaValue = TenPlus THEN cmc >= TenPlus
     ELSE targetManaValue >= minMana /\ targetManaValue <= maxMana

\* Variant of CanPayHybrid that wants every colour part available (some -> every).
CanPayHybrid_Every(symbolContent, availableColors) ==
  LET colorParts == FilterColorLetters(SplitSlash(symbolContent))
  IN \A k \in 1..Len(colorParts) : colorParts[k][1] \in availableColors

\* The hybrid branch: the symbol's colour parts, one of which must be available.
CanPayHybrid(symbolContent, availableColors) ==
  LET colorParts == FilterColorLetters(SplitSlash(symbolContent))
  IN Len(colorParts) > 0 =>
       \E k \in 1..Len(colorParts) : colorParts[k][1] \in availableColors

\* One iteration of the loop over the symbols: FALSE is "return false",
\* TRUE is "continue" (or falling out of the loop body).
SymbolPayable(symbol, availableColors) ==
  LET symbolContent == SliceInner(symbol)
  IN IF IsDigits(symbolContent) \/ symbolContent = <<"X">> THEN TRUE
     ELSE IF IncludesChar(symbolContent, "/")
          THEN CanPayHybrid(symbolContent, availableColors)
     ELSE IF EndsWithChar(symbolContent, "P")
             /\ IsColorLetter(SliceDropLast2(symbolContent)) THEN TRUE
     ELSE IF IsColorLetter(symbolContent)
          THEN symbolContent[1] \in availableColors
     ELSE TRUE

RECURSIVE AllPayable(_, _)
AllPayable(symbols, availableColors) ==
  IF symbols = <<>> THEN TRUE
  ELSE IF ~SymbolPayable(Head(symbols), availableColors) THEN FALSE
  ELSE AllPayable(Tail(symbols), availableColors)

isCardCastableWithColors(card, availableColors) ==
  LET manaCost == ResolvedCost(card)
  IN IF manaCost = <<>> THEN TRUE
     ELSE AllPayable(parseManaSymbols(manaCost), availableColors)

\* ------------------------------------------------------------ the state
VARIABLES
  \* mana evaluator: the arguments of the call and what it returned
  card, availableColors, targetManaValue, called, ret,
  \* catalog client: one call of fetchInstantsFromSet
  setCode, pc, url, inflight, allCards, spgCards, counterspellIds,
  spgCounterspellIds, returned, thrown,
  \* the remote's side: its request log, what it served, its special guests
  requests, servedCards, servedIds, spgCatalog

manaVars == <<card, availableColors, targetManaValue, called, ret>>
fetchVars == <<setCode, pc, url, inflight, allCards, spgCards, counterspellIds,
               spgCounterspellIds, returned, thrown>>
remoteVars == <<requests, servedCards, servedIds, spgCatalog>>
vars == <<manaVars, fetchVars, remoteVars>>

\* ------------------------------------------------------ the remote catalog
\* A request URL: which of the four searches, for which set code, which page.
\* url = null is NoUrl.
NoUrl == [query |-> "null", set |-> "", page |-> 0]

\* The first-page URL each function builds from setCode.
FirstUrl(query, code) == [query |-> query, set |-> code, page |-> 1]

\* The next_page pointer the remote's cursor protocol hands out for page u.
NextUrl(u) == [u EXCEPT !.page = u.page + 1]

\* The set code the call is made for.
SetCodes == {"neo"}

\* The ids of the cards in the catalog.
CardIds == {"c1", "c2"}

\* A card record as served by the remote; only its id is read by the client.
CardOf(i) == [id |-> i]

RECURSIVE CardSeqsOfLen(_)
CardSeqsOfLen(n) ==
  IF n = 0 THEN {<<>>}
  ELSE {<<CardOf(i)>> \o r : i \in CardIds, r \in CardSeqsOfLen(n - 1)}

\* The data arrays a page can carry.
PageData == UNION {CardSeqsOfLen(k) : k \in 0..MaxPageLen}

\* A fetch that rejects (transport), or resolves with a status: success,
\* 404, or another non-success status.
FailureStatuses == {"notfound", "error", "transport"}

Failure(status) ==
  [status |-> status, data |-> <<>>, has_more |-> FALSE, next_page |-> NoUrl]

\* Whether an answer points at a further page: has_more with a next_page.
PointsOn(r) == r.has_more /\ r.next_page # NoUrl

\* Pages beyond the first the remote may still serve, given its request log.
ExtraPagesLeft(log) ==
  MaxExtraPages - Cardinality({i \in 1..Len(log) : log[i].url.page > 1})

\* What the remote may answer to a request for u: a failure, or a page of at
\* most cardsLeft cards that points on only while extra pages are left.
Responses(u, extraLeft, cardsLeft) ==
  {Failure(st) : st \in FailureStatuses}
  \cup {r \in [status : {"ok"}, data : PageData, has_more : BOOLEAN,
               next_page : {NoUrl, NextUrl(u)}] :
          /\ Len(r.data) <= cardsLeft
          /\ PointsOn(r) => extraLeft > 0}

\* The special-guest cards the catalog holds for the set's release date: what
\* the special-guest search answers with when it is asked and succeeds.
SpgCatalogs ==
  UNION {CardSeqsOfLen(k) : k \in {n \in 0..MaxPageLen : n <= MaxCards}}

\* The special-guest search pages through its catalog entry: a page carries
\* the next cards not yet served, and a page that ends the cursor carries
\* the last of them.  It can fail, or answer 404, on any page.
SpgResponses(u, extraLeft, catalog, served) ==
  {r \in Responses(u, extraLeft, Len(catalog) - served) :
     r.status = "ok" =>
       /\ r.data = SubSeq(catalog, served + 1, served + Len(r.data))
       /\ ~PointsOn(r) => served + Len(r.data) = Len(catalog)}

NothingServed == [q \in {"main", "spg"} |-> <<>>]
NoIdsServed == [q \in {"cs", "spgcs"} |-> {}]

\* ------------------------------------------------- inputs of the evaluator
\* Contents of the mana symbols the generated costs are built from: generic,
\* X, single colours, two-colour hybrid, generic/colour hybrid, Phyrexian,
\* colourless.
SymbolContents ==
  { <<"2">>, <<"X">>, <<"G">>, <<"W">>, <<"B">>, <<"G", "/", "W">>,
    <<"2", "/", "G">>, <<"B", "/", "P">>, <<"C">> }

Brace(content) == <<"{">> \o content \o <<"}">>

RECURSIVE CostsOfLen(_)
CostsOfLen(n) ==
  IF n = 0 THEN {<<>>}
  ELSE {Brace(c) \o r : c \in SymbolContents, r \in CostsOfLen(n - 1)}

Costs == UNION {CostsOfLen(k) : k \in 0..MaxSyms}

\* A face of a multi-faced card; only its mana_cost is read.
Face(cost) == [mana_cost |-> cost]

\* Cards with their own cost (with or without faces) and cards whose cost is
\* on the first face only.
CardsWithCmc(cmcs) ==
  {[mana_cost |-> c, card_faces |-> f, cmc |-> m] :
      c \in Costs \ {<<>>}, f \in {<<>>, <<Face(Brace(<<"R">>))>>}, m \in cmcs}
  \cup {[mana_cost |-> <<>>, card_faces |-> <<Face(c)>>, cmc |-> m] :
      c \in Costs, m \in cmcs}
  \cup {[mana_cost |-> <<>>, card_faces |-> <<>>, cmc |-> m] : m \in cmcs}

Targets == (0 - 1)..MaxTarget

\* Values of the catalog client's variables while only the evaluator runs.
FetchIdle ==
  /\ setCode = "none" /\ pc = "idle" /\ url = NoUrl /\ inflight = NoUrl
  /\ allCards = <<>> /\ spgCards = <<>>
  /\ counterspellIds = {} /\ spgCounterspellIds = {}
  /\ returned = <<>> /\ thrown = "none"
  /\ requests = <<>> /\ servedCards = NothingServed /\ servedIds = NoIdsServed
  /\ spgCatalog = <<>>

\* ------------------------------------ specification: castability filter
InitCastable ==
  /\ card \in CardsWithCmc({0})
  /\ availableColors \in SUBSET ColorLetters
  /\ targetManaValue = 0
  /\ called = "none" /\ ret = FALSE
  /\ FetchIdle

CallIsCardCastableWithColors ==
  /\ called = "none"
  /\ called' = "isCardCastableWithColors"
  /\ ret' = isCardCastableWithColors(card, availableColors)
  /\ UNCHANGED <<card, availableColors, targetManaValue, fetchVars, remoteVars>>

NextCastable == CallIsCardCastableWithColors

SpecCastable == InitCastable /\ [][NextCastable]_vars

\* ------------------------------------- specification: mana value filter
InitManaValue ==
  /\ card \in CardsWithCmc(0..MaxCmcScaled)
  /\ availableColors = {}
  /\ targetManaValue \in Targets
  /\ called = "none" /\ ret = FALSE
  /\ FetchIdle

CallCardMatchesManaValue ==
  /\ called = "none"
  /\ called' = "cardMatchesManaValue"
  /\ ret' = cardMatchesManaValue(card, targetManaValue)
  /\ UNCHANGED <<card, availableColors, targetManaValue, fetchVars, remoteVars>>

NextManaValue == CallCardMatchesManaValue

SpecManaValue == InitManaValue /\ [][NextManaValue]_vars

\* ------------------------------------- specification: the catalog client
\* Values of the evaluator's variables while only the catalog client runs.
ManaIdle ==
  /\ card = [mana_cost |-> <<>>, card_faces |-> <<>>, cmc |-> 0]
  /\ availableColors = {} /\ targetManaValue = 0
  /\ called = "none" /\ ret = FALSE

\* fetchInstantsFromSet(setCode) has been called and is about to request the
\* first page of the main-set search.
InitFetch ==
  /\ setCode \in SetCodes
  /\ pc = "main"
  /\ url = FirstUrl("main", setCode)
  /\ inflight = NoUrl
  /\ allCards = <<>> /\ spgCards = <<>>
  /\ counterspellIds = {} /\ spgCounterspellIds = {}
  /\ returned = <<>> /\ thrown = "none"
  /\ requests = <<>> /\ servedCards = NothingServed /\ servedIds = NoIdsServed
  /\ spgCatalog \in SpgCatalogs
  /\ ManaIdle

\* fetch() rejected: no response object at all.
Rejected(r) == r.status = "transport"

\* response.ok
ResponseOk(r) == r.status = "ok"

\* Variant of IsNotFound that takes every non-success status for a 404.
IsNotFound_AnyStatus(r) == r.status # "ok"

\* Variant of IsNotFound that never recognises a 404.
IsNotFound_Never(r) == FALSE

\* response.status === 404
IsNotFound(r) == r.status = "notfound"

\* Variant of NextPageOf that follows next_page whatever has_more says.
NextPageOf_IgnoreHasMore(r) == r.next_page

\* url = data.has_more ? data.next_page ?? null : null
NextPageOf(r) == IF r.has_more THEN r.next_page ELSE NoUrl

\* The ids of the cards of a page.
IdsOf(data) == {data[i].id : i \in 1..Len(data)}

\* Variant of IdsOnNotFound that drops the ids gathered so far.
IdsOnNotFound_Empty(ids) == {}

\* "return ids" of the 404 branch of the two id queries.
IdsOnNotFound(ids) == ids

\* Variant of AppendSpecialGuests that puts the special guests first.
AppendSpecialGuests_Prepend(cards, guests) == guests \o cards

\* allCards = [...allCards, ...spgCards]
AppendSpecialGuests(cards, guests) == cards \o guests

\* allCards.map(card => ({...card, isCounterspell: allCounterspellIds.has(card.id)}))
MarkCounterspells(cards, allCounterspellIds) ==
  [i \in 1..Len(cards) |->
     [id |-> cards[i].id, isCounterspell |-> cards[i].id \in allCounterspellIds]]

\* Variant of AllCounterspellIds that forgets the special guests' ids.
AllCounterspellIds_MainOnly(ids, spgIds) == ids

\* new Set([...counterspellIds, ...spgCounterspellIds])
AllCounterspellIds(ids, spgIds) == ids \cup spgIds

\* The remote's log entry of the request in flight gets the status of its
\* answer and whether the answer pointed at a further page.
Answered(r) ==
  [requests EXCEPT ![Len(requests)] = [@ EXCEPT !.status = r.status,
                                                 !.more = PointsOn(r)]]

\* await fetch(url, ...) at the top of a loop body: the request goes out and
\* the function suspends until the answer arrives.
IssueFetch ==
  /\ url # NoUrl /\ inflight = NoUrl
  /\ inflight' = url
  /\ requests' = Append(requests, [url |-> url, status |-> "pending", more |-> FALSE])
  /\ UNCHANGED <<manaVars, setCode, pc, url, allCards, spgCards, counterspellIds,
                 spgCounterspellIds, returned, thrown, servedCards, servedIds,
                 spgCatalog>>

\* A rejected fetch or a throw new Error(message) leaves every function on
\* the call stack; nothing is returned.
Throw(r, message) ==
  /\ pc' = "thrown"
  /\ thrown' = IF Rejected(r) THEN "TransportFailure" ELSE message
  /\ url' = NoUrl
  /\ UNCHANGED <<allCards, spgCards, counterspellIds, spgCounterspellIds,
                 returned, servedCards, servedIds>>

FetchMainPage ==
  /\ pc = "main"
  /\ IssueFetch

FetchSpecialGuestsPage ==
  /\ pc = "spg"
  /\ IssueFetch

FetchCounterspellPage ==
  /\ pc = "cs"
  /\ IssueFetch

FetchSpecialGuestsCounterspellPage ==
  /\ pc = "spgcs"
  /\ IssueFetch

\* fetchInstantsFromSet, one pass of the while loop after the answer arrived;
\* leaving the loop enters fetchSpecialGuestsFromSet.
MainResponse ==
  /\ pc = "main" /\ inflight # NoUrl
  /\ \E r \in Responses(inflight, ExtraPagesLeft(requests),
                          MaxCards - Len(spgCatalog) - Len(servedCards["main"])) :
       /\ inflight' = NoUrl
       /\ requests' = Answered(r)
       /\ \/ /\ Rejected(r) \/ (~ResponseOk(r) /\ ~IsNotFound(r))
             /\ Throw(r, "Failed to fetch cards")
          \/ /\ ~Rejected(r) /\ ~ResponseOk(r) /\ IsNotFound(r)
             /\ returned' = <<>>
             /\ pc' = "done"
             /\ url' = NoUrl
             /\ UNCHANGED <<allCards, spgCards, counterspellIds,
                            spgCounterspellIds, thrown, servedCards, servedIds>>
          \/ /\ ~Rejected(r) /\ ResponseOk(r)
             /\ allCards' = allCards \o r.data
             /\ servedCards' = [servedCards EXCEPT !["main"] = @ \o r.data]
             /\ IF NextPageOf(r) # NoUrl
                THEN url' = NextPageOf(r) /\ pc' = "main"
                ELSE url' = FirstUrl("spg", setCode) /\ pc' = "spg"
             /\ UNCHANGED <<spgCards, counterspellIds, spgCounterspellIds,
                            returned, thrown, servedIds>>
  /\ UNCHANGED <<manaVars, setCode, spgCatalog>>

\* fetchSpecialGuestsFromSet, one pass of its loop; its return value is
\* appended to allCards and fetchCounterspellIds is entered.
SpecialGuestsResponse ==
  /\ pc = "spg" /\ inflight # NoUrl
  /\ \E r \in SpgResponses(inflight, ExtraPagesLeft(requests), spgCatalog,
                             Len(servedCards["spg"])) :
       /\ inflight' = NoUrl
       /\ requests' = Answered(r)
       /\ \/ /\ Rejected(r) \/ (~ResponseOk(r) /\ ~IsNotFound(r))
             /\ Throw(r, "Failed to fetch Special Guests cards")
          \/ /\ ~Rejected(r) /\ ~ResponseOk(r) /\ IsNotFound(r)
             /\ spgCards' = <<>>
             /\ allCards' = AppendSpecialGuests(allCards, <<>>)
             /\ url' = FirstUrl("cs", setCode) /\ pc' = "cs"
             /\ UNCHANGED <<counterspellIds, spgCounterspellIds, returned,
                            thrown, servedCards, servedIds>>
          \/ /\ ~Rejected(r) /\ ResponseOk(r)
             /\ spgCards' = spgCards \o r.data
             /\ servedCards' = [servedCards EXCEPT !["spg"] = @ \o r.data]
             /\ IF NextPageOf(r) # NoUrl
                THEN url' = NextPageOf(r) /\ pc' = "spg" /\ UNCHANGED allCards
                ELSE /\ allCards' = AppendSpecialGuests(allCards, spgCards')
                     /\ url' = FirstUrl("cs", setCode) /\ pc' = "cs"
             /\ UNCHANGED <<counterspellIds, spgCounterspellIds, returned,
                            thrown, servedIds>>
  /\ UNCHANGED <<manaVars, setCode, spgCatalog>>

\* fetchCounterspellIds, one pass of its loop; returning enters
\* fetchSpecialGuestsCounterspellIds.
CounterspellResponse ==
  /\ pc = "cs" /\ inflight # NoUrl
  /\ \E r \in Responses(inflight, ExtraPagesLeft(requests), MaxPageLen) :
       /\ inflight' = NoUrl
       /\ requests' = Answered(r)
       /\ \/ /\ Rejected(r) \/ (~ResponseOk(r) /\ ~IsNotFound(r))
             /\ Throw(r, "Failed to fetch counterspells")
          \/ /\ ~Rejected(r) /\ ~ResponseOk(r) /\ IsNotFound(r)
             /\ counterspellIds' = IdsOnNotFound(counterspellIds)
             /\ url' = FirstUrl("spgcs", setCode) /\ pc' = "spgcs"
             /\ UNCHANGED <<allCards, spgCards, spgCounterspellIds, returned,
                            thrown, servedCards, servedIds>>
          \/ /\ ~Rejected(r) /\ ResponseOk(r)
             /\ counterspellIds' = counterspellIds \cup IdsOf(r.data)
             /\ servedIds' = [servedIds EXCEPT !["cs"] = @ \cup IdsOf(r.data)]
             /\ IF NextPageOf(r) # NoUrl
                THEN url' = NextPageOf(r) /\ pc' = "cs"
                ELSE url' = FirstUrl("spgcs", setCode) /\ pc' = "spgcs"
             /\ UNCHANGED <<allCards, spgCards, spgCounterspellIds, returned,
                            thrown, servedCards>>
  /\ UNCHANGED <<manaVars, setCode, spgCatalog>>

\* fetchSpecialGuestsCounterspellIds, one pass of its loop; returning lets
\* fetchInstantsFromSet mark the cards and return them.
SpecialGuestsCounterspellResponse ==
  /\ pc = "spgcs" /\ inflight # NoUrl
  /\ \E r \in Responses(inflight, ExtraPagesLeft(requests), MaxPageLen) :
       /\ inflight' = NoUrl
       /\ requests' = Answered(r)
       /\ \/ /\ Rejected(r) \/ (~ResponseOk(r) /\ ~IsNotFound(r))
             /\ Throw(r, "Failed to fetch Special Guests counterspells")
          \/ /\ ~Rejected(r) /\ ~ResponseOk(r) /\ IsNotFound(r)
             /\ spgCounterspellIds' = IdsOnNotFound(spgCounterspellIds)
             /\ returned' = MarkCounterspells(allCards,
                              AllCounterspellIds(counterspellIds, spgCounterspellIds'))
             /\ url' = NoUrl /\ pc' = "done"
             /\ UNCHANGED <<allCards, spgCards, counterspellIds, thrown,
                            servedCards, servedIds>>
          \/ /\ ~Rejected(r) /\ ResponseOk(r)
             /\ spgCounterspellIds' = spgCounterspellIds \cup IdsOf(r.data)
             /\ servedIds' = [servedIds EXCEPT !["spgcs"] = @ \cup IdsOf(r.data)]
             /\ IF NextPageOf(r) # NoUrl
                THEN url' = NextPageOf(r) /\ pc' = "spgcs" /\ UNCHANGED returned
                ELSE /\ returned' = MarkCounterspells(allCards,
                                      AllCounterspellIds(counterspellIds, spgCounterspellIds'))
                     /\ url' = NoUrl /\ pc' = "done"
             /\ UNCHANGED <<allCards, spgCards, counterspellIds, thrown,
                            servedCards>>
  /\ UNCHANGED <<manaVars, setCode, spgCatalog>>

NextFetch ==
  \/ FetchMainPage
  \/ MainResponse
  \/ FetchSpecialGuestsPage
  \/ SpecialGuestsResponse
  \/ FetchCounterspellPage
  \/ CounterspellResponse
  \/ FetchSpecialGuestsCounterspellPage
  \/ SpecialGuestsCounterspellResponse

SpecFetch == InitFetch /\ [][NextFetch]_vars

\* The runtime resumes a suspended function once its fetch settles, and the
\* remote settles every request.
FairSpecFetch == SpecFetch /\ WF_vars(NextFetch)

\* ------------------------------------------- properties of the evaluator
\* The symbols of the cost the evaluators resolve for the card of the call.
CostSymbols == parseManaSymbols(ResolvedCost(card))

IsGenericSym(sym) ==
  LET t == SliceInner(sym) IN IsDigits(t) \/ t = <<"X">>

IsBareColorSym(sym) ==
  LET t == SliceInner(sym) IN Len(t) = 1 /\ t[1] \in ColorLetters

IsTwoColorHybridSym(sym) ==
  LET t == SliceInner(sym)
  IN Len(t) = 3 /\ t[1] \in ColorLetters /\ t[2] = "/" /\ t[3] \in ColorLetters

IsGenericColorHybridSym(sym) ==
  LET t == SliceInner(sym)
  IN Len(t) = 3 /\ t[1] \in Digits /\ t[2] = "/" /\ t[3] \in ColorLetters

IsPhyrexianSym(sym) ==
  LET t == SliceInner(sym)
  IN Len(t) = 3 /\ t[1] \in ColorLetters /\ t[2] = "/" /\ t[3] = "P"

CastableReturned == called = "isCardCastableWithColors"
MatchesReturned == called = "cardMatchesManaValue"

\* C1: a card whose cost holds a Phyrexian symbol {C/P} and otherwise only
\* generic/X symbols is castable with every set of available colours.
C1_PhyrexianAlwaysCastable ==
  ( /\ CastableReturned
    /\ \E i \in 1..Len(CostSymbols) : IsPhyrexianSym(CostSymbols[i])
    /\ \A i \in 1..Len(CostSymbols) :
         IsPhyrexianSym(CostSymbols[i]) \/ IsGenericSym(CostSymbols[i]) )
  => ret = TRUE

\* C2: a card whose cost holds a generic/colour hybrid symbol such as {2/G}
\* and otherwise only generic/X symbols is castable with every set of
\* available colours.
C2_GenericHybridAlwaysCastable ==
  ( /\ CastableReturned
    /\ \E i \in 1..Len(CostSymbols) : IsGenericColorHybridSym(CostSymbols[i])
    /\ \A i \in 1..Len(CostSymbols) :
         IsGenericColorHybridSym(CostSymbols[i]) \/ IsGenericSym(CostSymbols[i]) )
  => ret = TRUE

\* Costs built only from generic numbers, X, bare colours and two-colour hybrids.
PlainCost ==
  \A i \in 1..Len(CostSymbols) :
    \/ IsGenericSym(CostSymbols[i])
    \/ IsBareColorSym(CostSymbols[i])
    \/ IsTwoColorHybridSym(CostSymbols[i])

\* C3: for a cost of generic, X, bare single-colour and two-colour hybrid
\* symbols only, the card is castable exactly when every bare colour is
\* available and every hybrid has one of its two colours available; an
\* absent or generic-only cost is castable with no colours at all.
C3_PlainCostCastableIff ==
  (CastableReturned /\ PlainCost) =>
    ( ret = \A i \in 1..Len(CostSymbols) :
              LET t == SliceInner(CostSymbols[i])
              IN /\ IsBareColorSym(CostSymbols[i]) => t[1] \in availableColors
                 /\ IsTwoColorHybridSym(CostSymbols[i]) =>
                      (t[1] \in availableColors \/ t[3] \in availableColors) )

\* C3 witness: {G/W}{B} was evaluated with W and B available, G missing.
C3_Witness ==
  /\ CastableReturned
  /\ ResolvedCost(card) = Brace(<<"G", "/", "W">>) \o Brace(<<"B">>)
  /\ availableColors = {"W", "B"}
  /\ ret = TRUE

\* The number of Phyrexian symbols of the resolved cost.
PhyrexianSymbols ==
  Cardinality({i \in 1..Len(CostSymbols) : IsPhyrexianSym(CostSymbols[i])})

\* floor(card.cmc): the integer k with k <= card.cmc < k + 1.
CmcFloor ==
  CHOOSE k \in 0..card.cmc :
    k * CmcUnit <= card.cmc /\ card.cmc < (k + 1) * CmcUnit

LastRequest == requests[Len(requests)]

\* Some page of the query answered 404.
AnsweredNotFound(query) ==
  \E i \in 1..Len(requests) :
    requests[i].url.query = query /\ requests[i].status = "notfound"

IdSeq(cards) == [i \in 1..Len(cards) |-> cards[i].id]

\* The order in which fetchInstantsFromSet runs its four queries.
QueryRank(query) ==
  CASE query = "main" -> 1 [] query = "spg" -> 2
    [] query = "cs" -> 3 [] query = "spgcs" -> 4

\* C5: when the first page of the main-set search answers 404 the call
\* returns the empty sequence, throws nothing and asks the remote nothing
\* more, whatever special guests the catalog holds.
C5_MainNotFoundReturnsEmpty ==
  ( /\ Len(requests) >= 1
    /\ requests[1].url = FirstUrl("main", setCode)
    /\ requests[1].status = "notfound" )
  => /\ pc = "done" /\ returned = <<>> /\ thrown = "none"
     /\ Len(requests) = 1

\* C5 witness: the call returned after a 404 on the first main-set page
\* although the catalog holds special guests for the set.
C5_Witness ==
  /\ pc = "done"
  /\ requests[1].status = "notfound"
  /\ spgCatalog # <<>>

\* C6 as stated: every returned sequence ends with all special-guest cards of
\* the set, placed after all main-set cards, a main-set search without cards
\* included.
C6_SpecialGuestsAlwaysIncluded ==
  pc = "done" =>
    /\ Len(returned) >= Len(spgCatalog)
    /\ LET k == Len(returned) - Len(spgCatalog)
       IN /\ IdSeq(SubSeq(returned, k + 1, Len(returned))) = IdSeq(spgCatalog)
          /\ IdSeq(SubSeq(returned, 1, k)) = IdSeq(servedCards["main"])

\* C6 amended: a call whose main-set search answered 404 returns the empty
\* sequence without asking for special guests; any other returning call
\* returns the main-set cards followed by all special-guest cards of the set
\* if the special-guest search ended without a 404, and by none if it
\* answered 404.
C6_SpecialGuestsAppendedUnlessNotFound ==
  pc = "done" =>
    IF AnsweredNotFound("main")
    THEN /\ returned = <<>>
         /\ \A i \in 1..Len(requests) : requests[i].url.query = "main"
    ELSE IdSeq(returned) =
           IdSeq(servedCards["main"])
           \o (IF AnsweredNotFound("spg") THEN <<>> ELSE IdSeq(spgCatalog))

\* C6 witness: main-set cards and two special guests were returned.
C6_Witness ==
  /\ pc = "done"
  /\ ~AnsweredNotFound("main") /\ ~AnsweredNotFound("spg")
  /\ servedCards["main"] = <<CardOf("c1")>>
  /\ spgCatalog = <<CardOf("c2"), CardOf("c1")>>
  /\ Len(returned) = 3

\* C7: a returned card is flagged as a counterspell exactly when its id was
\* served by a page of the main-set or of the special-guest counterspell
\* search, and a 404 of either id search does not fail the call.
C7_CounterspellFlags ==
  /\ pc = "done" =>
       \A i \in 1..Len(returned) :
         returned[i].isCounterspell =
           (returned[i].id \in servedIds["cs"] \cup servedIds["spgcs"])
  /\ ( /\ Len(requests) >= 1
       /\ LastRequest.url.query \in {"cs", "spgcs"}
       /\ LastRequest.status = "notfound" )
     => (pc # "thrown" /\ thrown = "none")

\* C7 witness: the main-set id search answered 404, the special-guest id
\* search served id c1, and cards c1 and c2 came back flagged and unflagged.
C7_Witness ==
  /\ pc = "done"
  /\ AnsweredNotFound("cs")
  /\ servedIds["spgcs"] = {"c1"}
  /\ \E i \in 1..Len(returned) : returned[i].id = "c1" /\ returned[i].isCounterspell
  /\ \E i \in 1..Len(returned) : returned[i].id = "c2" /\ ~returned[i].isCounterspell

\* At most one request is unanswered, and it is the one the call awaits.
OneRequestAtATime ==
  /\ \A i \in 1..Len(requests) :
       requests[i].status = "pending" =>
         (i = Len(requests) /\ inflight = requests[i].url)
  /\ inflight # NoUrl => (Len(requests) >= 1 /\ LastRequest.status = "pending")

\* Page n > 1 of a query is requested right after its page n - 1 succeeded
\* and pointed on.
PageByPage ==
  \A i \in 1..Len(requests) :
    LET u == requests[i].url
    IN IF u.page = 1
       THEN i = 1 \/ requests[i - 1].url.query # u.query
       ELSE /\ i > 1
            /\ NextUrl(requests[i - 1].url) = u
            /\ requests[i - 1].status = "ok" /\ requests[i - 1].more

\* A successful page is followed by the page it points at, and by no page
\* of the same query if it points at none.
FollowsCursor ==
  \A i \in 1..Len(requests) :
    LET e == requests[i]
    IN e.status = "ok" =>
         IF e.more
         THEN IF i = Len(requests)
              THEN pc = e.url.query /\ url = NextUrl(e.url)
              ELSE requests[i + 1].url = NextUrl(e.url)
         ELSE IF i = Len(requests)
              THEN pc # e.url.query /\ inflight = NoUrl
              ELSE requests[i + 1].url.query # e.url.query

\* While no page answered 404 the accumulated cards are the pages' data in
\* the order served.
AccumulatesInOrder ==
  /\ pc = "main" => allCards = servedCards["main"]
  /\ pc = "spg" =>
       (spgCards = servedCards["spg"] /\ allCards = servedCards["main"])
  /\ (pc \in {"cs", "spgcs", "done"}
      /\ ~AnsweredNotFound("main") /\ ~AnsweredNotFound("spg"))
     => allCards = servedCards["main"] \o servedCards["spg"]

\* C8: each card query asks for its pages one at a time, following the
\* next-page pointer, stops at the first page without one (has_more false
\* or next_page absent), accumulates the pages' data in the order served,
\* and its loop comes to an end.
C8_Pagination ==
  /\ [](OneRequestAtATime /\ PageByPage /\ FollowsCursor /\ AccumulatesInOrder)
  /\ \A query \in {"main", "spg"} : (pc = query) ~> (pc # query)

\* C8 witness: the main-set search ended after two pages and the three cards
\* they carried are accumulated in the order served.
C8_Witness ==
  /\ pc = "spg"
  /\ Len(requests) = 2
  /\ requests[1].more /\ ~requests[2].more
  /\ allCards = <<CardOf("c2"), CardOf("c1"), CardOf("c1")>>

\* C9 as stated: a 404 on a page after the first makes the call throw.
C9_LaterNotFoundThrows ==
  ( /\ Len(requests) >= 1
    /\ LastRequest.status = "notfound"
    /\ LastRequest.url.page > 1 )
  => pc = "thrown"

\* C9 amended: a 404 on a page after the first is handled like a 404 on the
\* first page and raises no error: the main-set search makes the call
\* return the empty sequence, the special-guest search yields no special
\* guests, and an id search yields the ids of its earlier pages.
C9_LaterNotFoundLikeFirst ==
  ( /\ Len(requests) >= 1
    /\ LastRequest.status = "notfound"
    /\ LastRequest.url.page > 1 )
  => /\ pc # "thrown" /\ thrown = "none"
     /\ LastRequest.url.query = "main" => (pc = "done" /\ returned = <<>>)
     /\ LastRequest.url.query = "spg" =>
          (pc = "cs" /\ allCards = servedCards["main"])
     /\ LastRequest.url.query = "cs" =>
          (pc = "spgcs" /\ counterspellIds = servedIds["cs"])
     /\ LastRequest.url.query = "spgcs" =>
          /\ pc = "done"
          /\ spgCounterspellIds = servedIds["spgcs"]
          /\ \A i \in 1..Len(returned) :
               returned[i].isCounterspell =
                 (returned[i].id \in servedIds["cs"] \cup servedIds["spgcs"])

\* C9 witness: the second page of the main-set id search answered 404 after
\* the first page had served an id.
C9_Witness ==
  /\ Len(requests) >= 1
  /\ LastRequest.url.query = "cs" /\ LastRequest.url.page = 2
  /\ LastRequest.status = "notfound"
  /\ counterspellIds # {}

\* C10: requests go out in the order main set, special guests, main-set
\* ids, special-guest ids; no URL is requested twice; and a failed page
\* (a non-success status other than 404, or a failed transport) is the last
\* request of the call, which throws and returns nothing.
C10_OrderNoRetryFailStop ==
  /\ \A i, j \in 1..Len(requests) :
       i < j => /\ QueryRank(requests[i].url.query) <= QueryRank(requests[j].url.query)
                /\ requests[i].url # requests[j].url
  /\ \A i \in 1..Len(requests) :
       requests[i].status \in {"error", "transport"} =>
         /\ i = Len(requests)
         /\ pc = "thrown" /\ thrown # "none"
         /\ returned = <<>> /\ inflight = NoUrl

\* C10 witness: the main-set id search failed after cards of both card
\* searches had been accumulated.
C10_Witness ==
  /\ pc = "thrown"
  /\ LastRequest.url.query = "cs" /\ LastRequest.status = "error"
  /\ servedCards["main"] # <<>> /\ servedCards["spg"] # <<>>
  /\ thrown = "Failed to fetch counterspells"

====
